---- MODULE Spec2Model ----
(***************************************************************************)
(* A model of shmem_executor (src/shmem_executor.hpp) and of the process   *)
(* registry it launches its groups through (src/new_process_executor.hpp). *)
(*                                                                         *)
(* Spec          one invocation of bulk_execute or twoway_bulk_execute:    *)
(*               the launching process, the NumPEs processing elements     *)
(*               running bulk_oneway_functor::operator(), PE 0's symmetric *)
(*               shared_parameter<T>::value, the one-sided puts in flight  *)
(*               and the result socket.                                    *)
(* SpecRegistry  process_context: threads calling execute and wait on the  *)
(*               registry, the children they spawn, and its teardown.      *)
(***************************************************************************)
EXTENDS Integers, Sequences, FiniteSets, TLC

\* ------------------------------------------------------------------ bounds

NumPEs == 2

NumThreads == 2

MaxProcs == 2

\* the calls of twoway_execute, each of which makes a pipe
MaxPipes == 1

PEs == 0 .. (NumPEs - 1)

Threads == 1 .. NumThreads

Pids == 1 .. MaxProcs

\* values the factories of an invocation may produce, and the value a user
\* function may store through the result reference (demo.cpp uses 13 and 7)
SharedValues == {13}

ResultValues == {0, 13}

StoreValues == {7}

\* the process that runs main() and launches; the PEs are the other processes
LauncherProc == NumPEs

Processes == PEs \cup {LauncherProc}

NoStore == -1

NoPE == -1

NoThread == 0

\* 'int port = 71342;' of twoway_bulk_execute
port == 71342

NoPort == -1

\* twoway_execute creates one pipe per call
Pipes == 1 .. MaxPipes

NoPipe == 0

\* the process that owns the process_context; the children are the Pids
ThisProcess == 0

Holders == {ThisProcess} \cup Pids

\* the longest environment this process starts with
MaxEnv == 3

\* strings are sequences of characters; the name
\* "EXECUTE_ACTIVE_MESSAGE_BEFORE_MAIN" is shortened to two characters
variable == << "E", "X" >>

\* what *s.end() reads: the terminator of a std::string
Nul == "nul"

\* the strings environ may hold: the variable with a value and with an empty
\* one, a name that starts with the variable's, the bare name, a name the
\* variable's starts with, a name that differs in its last character, and
\* another variable
EnvStrings ==
  { << "E", "X", "=", "a" >>,
    << "E", "X", "=" >>,
    << "E", "X", "Y", "=", "a" >>,
    << "E", "X" >>,
    << "E", "=", "a" >>,
    << "E", "Y", "=", "a" >>,
    << "Y", "=", "b" >> }

\* to_string(message) of two messages
Messages == { << "b" >>, << "a", "=", "b" >> }

\* the arguments of new_process_executor() and of bulk_execute's executor
LauncherArgvs == { << "/usr/bin/env" >>, << "oshrun", "-n", "2" >> }

\* this_process::filename()
filename == "/proc/self/exe"

\* in_and_out_file_descriptors[0] and [1] of pipe k
In(k) == << k, "in" >>

Out(k) == << k, "out" >>

\* ------------------------------------------------------------------- state

VARIABLES
  \* the invocation (fixed by Init)
  twoway,            \* TRUE: twoway_bulk_execute, FALSE: bulk_execute
  nontrivial,        \* !std::is_trivially_destructible<shared_parameter_type>
  shared_factory,    \* the value shared_factory() returns
  result_factory,    \* the value result_factory() returns (two-way)
  user_raises,       \* the PEs on which the user function throws
  user_stores,       \* per PE: the value it stores through result, or NoStore
  \* the launching process
  lpc,               \* its position in bulk_execute / twoway_bulk_execute
  listening,         \* read_socket has a listening socket on the port
  accepted,          \* the PE whose connection was accepted, or NoPE
  outcome,           \* what Future.get() produced
  \* the processing elements
  pc,                \* per PE: position in operator()
  rank,              \* per PE: the local 'rank' (shmem_my_pe()), -1 before
  entered,           \* per PE: collective operations entered so far
  caught_exception,  \* per PE: the local of twoway functor's operator()
  symmetric_value,   \* per PE: cooperative_any's static source
  symmetric_result,  \* per PE: cooperative_any's static dest
  value,             \* per PE: shared_parameter<T>::value
                     \* [state, first, second]
  pending,           \* shmem_putmem transfers issued and not yet complete
  conn,              \* per PE: its write_socket
  sent,              \* per PE: the tagged messages written to its socket
  \* history
  invoked,           \* per PE: how often the user function was called
  call_rank,         \* per PE: the rank it was called with
  reads,             \* loads done through remote references
  slotLog,           \* emplace / destroy calls, in order
  spawnedUnheard,    \* the group was spawned while nobody listened
  passed,            \* per PE: the barriers it has come out of
  \* every process of the program: the start of its life
  env_message,       \* per process: EXECUTE_ACTIVE_MESSAGE_BEFORE_MAIN is set
  activated,         \* per process: calls of active_message::activate
  life,              \* per process: "none", "static_init", "activating",
                     \* "main", "exit_success", "abnormal"
  \* process_context
  mutex_,            \* the thread holding the mutex, or NoThread
  processes_,        \* the tracked pids
  proc,              \* per pid: "none", "running", "exited", "reaped"
  waited,            \* per pid: successful waitpid calls on it
  tpc,               \* per thread: position in execute / wait
  widx,              \* per thread: wait's loop position in processes_
  wsnap,             \* per thread: processes_ when its call took the mutex
  in_dtor,           \* per thread: the wait is ~process_context's
  destroyed,         \* ~process_context has returned
  lastWait,          \* history: what the last returned wait left behind
  lastFailure,       \* history: the last execute whose posix_spawnp failed
  \* twoway_execute and its pipes
  tcall,             \* per thread: the pipe of its twoway_execute, or NoPipe
  fds,               \* per process: the pipe ends it has open
  cloexec,           \* the launcher's descriptors that carry FD_CLOEXEC
  wfd,               \* per pid: invoke_and_write_result::file_descriptor
  wpc,               \* per pid: position in invoke_and_write_result
  pipebuf,           \* per pipe: what was written into it
  future,            \* per pipe: the interprocess_future of its read end
  \* twoway_bulk_execute called from several threads, and the port
  group_raises,      \* the calls in whose group a user function throws
  tbpc,              \* per thread: position in twoway_bulk_execute
  functor_port,      \* per call: twoway_bulk_execute_functor::port, or NoPort
  port_of,           \* per call: the port its read_socket is bound to
  backlog,           \* per call: the connections its listener has queued
  pe0,               \* per call: PE 0 of its group, after cooperative_any
  peer,              \* per call: the group whose connection it accepted
  got,               \* per call: what its future's get() produced
  \* the environment and the arguments of a spawned process
  environ,           \* this process's environment (this_process::environment)
  message,           \* to_string(message) of the call of execute
  launcher_program_argv,  \* the executor's arguments, without the nullptr
  spawnee_environment,    \* what posix_spawnp got as envp
  args               \* what posix_spawnp got as argv, without the nullptr

gvars == << twoway, nontrivial, shared_factory, result_factory, user_raises,
            user_stores, lpc, listening, accepted, outcome, pc, rank, entered,
            caught_exception, symmetric_value, symmetric_result, value,
            pending, conn, sent, invoked, call_rank, reads, slotLog,
            spawnedUnheard, passed, env_message, activated, life >>

rvars == << mutex_, processes_, proc, waited, tpc, widx, wsnap, in_dtor,
            destroyed, lastWait, lastFailure, tcall, fds, cloexec, wfd, wpc,
            pipebuf, future >>

svars == << group_raises, tbpc, functor_port, port_of, backlog, pe0, peer,
            got >>

evars == << environ, message, launcher_program_argv, spawnee_environment,
            args >>

vars == << gvars, rvars, svars, evars >>

\* frames
pipevars == << fds, cloexec, wfd, wpc, pipebuf, future >>

inputs == << twoway, nontrivial, shared_factory, result_factory, user_raises,
             user_stores >>

launcher == << lpc, listening, accepted, outcome, spawnedUnheard >>

\* ------------------------------------------------- the memory of the PEs

\* the values a load may yield where the C++ gives no guarantee
AnyValues == SharedValues \cup ResultValues \cup StoreValues \cup {0}

\* a PE that has left the runtime (or was never started) cannot be addressed
InRuntime(t) ==
  pc[t] \notin {"unspawned", "boot", "main", "start", "done", "aborted"}

\* what a reader finds at PE t's shared_parameter<T>::value
SlotSeen(t) == IF InRuntime(t) THEN value[t].state ELSE "gone"

\* remote_memory_accessor::load of one member of PE t's value: static storage
\* is zero until emplace; after destroy(), or once PE t has left, anything
LoadOutcomes(t, member) ==
  IF SlotSeen(t) \in {"raw", "constructed"} THEN {value[t][member]}
  ELSE AnyValues

\* remote_ptr<...>(address, 0): every remote pointer addresses PE 0
RemoteTargetPE_Local(p) == p

RemoteTargetPE(p) == 0

\* ------------------------------------------------------------ collectives

\* every PE has entered the collective operation PE p is waiting in
CollectiveOpen(p) == \A q \in PEs : entered[q] >= entered[p]

\* shmem_barrier_all also completes the remote updates issued before it
BarrierOpen(p) == CollectiveOpen(p) /\ pending = {}

\* ------------------------------------------------------------------- Init

RegistryIdle ==
  /\ mutex_ = NoThread
  /\ processes_ = << >>
  /\ proc = [i \in Pids |-> "none"]
  /\ waited = [i \in Pids |-> 0]
  /\ tpc = [t \in Threads |-> "idle"]
  /\ widx = [t \in Threads |-> 0]
  /\ wsnap = [t \in Threads |-> << >>]
  /\ in_dtor = [t \in Threads |-> FALSE]
  /\ destroyed = FALSE
  /\ lastWait = [returned |-> FALSE, snap |-> << >>, unreaped |-> {},
                 tracked |-> << >>]
  /\ lastFailure = [happened |-> FALSE, to_caller |-> FALSE,
                    list_kept |-> FALSE, children_kept |-> FALSE,
                    mutex_after |-> NoThread, had_tracked |-> FALSE]
  /\ tcall = [t \in Threads |-> NoPipe]
  /\ fds = [h \in Holders |-> {}]
  /\ cloexec = {}
  /\ wfd = [i \in Pids |-> NoPipe]
  /\ wpc = [i \in Pids |-> "none"]
  /\ pipebuf = [k \in Pipes |-> "empty"]
  /\ future = [k \in Pipes |-> "none"]

GroupIdle ==
  /\ listening = FALSE
  /\ accepted = NoPE
  /\ outcome = [kind |-> "none", v |-> 0]
  /\ pc = [p \in PEs |-> "unspawned"]
  /\ rank = [p \in PEs |-> -1]
  /\ entered = [p \in PEs |-> 0]
  /\ caught_exception = [p \in PEs |-> FALSE]
  /\ symmetric_value = [p \in PEs |-> FALSE]
  /\ symmetric_result = [p \in PEs |-> FALSE]
  /\ value = [p \in PEs |-> [state |-> "raw", first |-> 0, second |-> 0]]
  /\ pending = {}
  /\ conn = [p \in PEs |-> "none"]
  /\ sent = [p \in PEs |-> << >>]
  /\ invoked = [p \in PEs |-> 0]
  /\ call_rank = [p \in PEs |-> -1]
  /\ reads = {}
  /\ slotLog = << >>
  /\ spawnedUnheard = FALSE
  /\ passed = [p \in PEs |-> {}]
  /\ env_message = [q \in Processes |-> FALSE]
  /\ activated = [q \in Processes |-> 0]

\* no call of twoway_bulk_execute from a thread has begun
SocketIdle ==
  /\ tbpc = [t \in Threads |-> "idle"]
  /\ functor_port = [t \in Threads |-> NoPort]
  /\ port_of = [t \in Threads |-> NoPort]
  /\ backlog = [t \in Threads |-> << >>]
  /\ pe0 = [t \in Threads |-> "unspawned"]
  /\ peer = [t \in Threads |-> NoThread]
  /\ got = [t \in Threads |-> [tag |-> "none", from |-> NoThread]]

\* nothing has been handed to posix_spawnp
EnvIdle ==
  /\ spawnee_environment = << >>
  /\ args = << >>

\* the parts of the state a specification does not follow
SocketUnused == group_raises = {} /\ SocketIdle

EnvUnused ==
  /\ environ = << >>
  /\ message = << >>
  /\ launcher_program_argv = << >>
  /\ EnvIdle

\* the calls of demo.cpp, generalised: either operation, either kind of
\* shared type, any set of throwing PEs, any PEs storing a result
Init ==
  /\ twoway \in BOOLEAN
  /\ nontrivial \in BOOLEAN
  /\ shared_factory \in SharedValues
  /\ result_factory \in (IF twoway THEN ResultValues ELSE {0})
  /\ user_raises \in SUBSET PEs
  /\ user_stores \in (IF twoway THEN [PEs -> StoreValues \cup {NoStore}]
                                ELSE {[p \in PEs |-> NoStore]})
  /\ lpc = "boot"
  /\ life = [q \in Processes |->
               IF q = LauncherProc THEN "static_init" ELSE "none"]
  /\ GroupIdle
  /\ RegistryIdle
  /\ SocketUnused
  /\ EnvUnused

\* --------------------------------------------------- the launching process

\* the variable is set in the environment: 'if(variable)'
HasMessage(q) == env_message[q]

\* execute_active_message_before_main_if in the launching process, run by the
\* constructor of the global before_main: without the variable main() starts
LauncherBootstrap ==
  /\ lpc = "boot"
  /\ life[LauncherProc] = "static_init"
  /\ IF HasMessage(LauncherProc)
     THEN /\ activated' = [activated EXCEPT ![LauncherProc] = @ + 1]
          /\ life' = [life EXCEPT ![LauncherProc] = "activating"]
          /\ lpc' = lpc
     ELSE /\ life' = [life EXCEPT ![LauncherProc] = "main"]
          /\ lpc' = "start"
          /\ activated' = activated
  /\ UNCHANGED << twoway, nontrivial, shared_factory, result_factory,
                  user_raises, user_stores, listening, accepted, outcome, pc,
                  rank, entered, caught_exception, symmetric_value,
                  symmetric_result, value, pending, conn, sent, invoked,
                  call_rank, reads, slotLog, spawnedUnheard, env_message,
                  passed, svars, evars, rvars >>

\* bulk_execute: new_process_executor::execute spawns 'oshrun -n n <this>'
\* with the message in the environment of the new processes; in
\* twoway_bulk_execute this call precedes read_socket(port)
Spawn ==
  /\ lpc = "start"
  /\ pc' = [p \in PEs |-> "boot"]
  /\ env_message' = [q \in Processes |-> q \in PEs \/ env_message[q]]
  /\ life' = [q \in Processes |-> IF q \in PEs THEN "static_init" ELSE life[q]]
  /\ lpc' = IF twoway THEN "listen" ELSE "returned"
  /\ spawnedUnheard' = (twoway /\ ~listening)
  /\ UNCHANGED << twoway, nontrivial, shared_factory, result_factory,
                  user_raises, user_stores, listening, accepted, outcome,
                  rank, entered, caught_exception, symmetric_value,
                  symmetric_result, value, pending, conn, sent, invoked,
                  call_rank, reads, slotLog, activated, passed,
                  svars, evars, rvars >>

\* posix_spawnp fails: execute throws std::system_error to the caller
SpawnFails ==
  /\ lpc = "start"
  /\ lpc' = "spawn_error"
  /\ UNCHANGED << twoway, nontrivial, shared_factory, result_factory,
                  user_raises, user_stores, listening, accepted, outcome, pc,
                  rank, entered, caught_exception, symmetric_value,
                  symmetric_result, value, pending, conn, sent, invoked,
                  call_rank, reads, slotLog, spawnedUnheard,
                  env_message, activated, life, passed, svars, evars, rvars >>

\* read_socket(port): the listening socket exists from here on
Listen ==
  /\ lpc = "listen"
  /\ listening' = TRUE
  /\ lpc' = "accept"
  /\ UNCHANGED << twoway, nontrivial, shared_factory, result_factory,
                  user_raises, user_stores, accepted, outcome, pc, rank,
                  entered, caught_exception, symmetric_value,
                  symmetric_result, value, pending, conn, sent, invoked,
                  call_rank, reads, slotLog, spawnedUnheard,
                  env_message, activated, life, passed, svars, evars, rvars >>

\* one connection is accepted; the Future is bound to it
Accept ==
  /\ lpc = "accept"
  /\ \E p \in PEs :
       /\ conn[p] \in {"open", "closed"}
       /\ accepted' = p
  /\ lpc' = "get"
  /\ UNCHANGED << twoway, nontrivial, shared_factory, result_factory,
                  user_raises, user_stores, listening, outcome, pc, rank,
                  entered, caught_exception, symmetric_value,
                  symmetric_result, value, pending, conn, sent, invoked,
                  call_rank, reads, slotLog, spawnedUnheard,
                  env_message, activated, life, passed, svars, evars, rvars >>

\* interprocess_future::get : a value tag yields the value, an exception tag
\* or a channel closed without a message throws interprocess_exception
FutureResult(msgs) ==
  IF msgs = << >> THEN [kind |-> "interprocess_exception", v |-> 0]
  ELSE IF Head(msgs).tag = "value" THEN [kind |-> "value", v |-> Head(msgs).v]
  ELSE [kind |-> "interprocess_exception", v |-> 0]

Get ==
  /\ lpc = "get"
  /\ sent[accepted] # << >> \/ conn[accepted] = "closed"
  /\ outcome' = FutureResult(sent[accepted])
  /\ lpc' = "done"
  /\ UNCHANGED << twoway, nontrivial, shared_factory, result_factory,
                  user_raises, user_stores, listening, accepted, pc, rank,
                  entered, caught_exception, symmetric_value,
                  symmetric_result, value, pending, conn, sent, invoked,
                  call_rank, reads, slotLog, spawnedUnheard,
                  env_message, activated, life, passed, svars, evars, rvars >>

\* ------------------------------------ bulk_oneway_functor::operator()

\* 'if(rank == 0)' before emplace
IsConstructor_Every(p) == TRUE

IsConstructor(p) == rank[p] = 0

\* after the emplace every PE goes to shmem_barrier_all
PostConstructPc_NoBarrier == "call"

PostConstructPc == "b1"

\* synchronize_and_destroy_shared_parameter_if: a no-op for a trivially
\* destructible type, else a barrier followed by rank 0's destroy()
TeardownEntryPc_NoBarrier(p) ==
  IF nontrivial /\ rank[p] = 0 THEN "destroy" ELSE "fin"

TeardownEntryPc(p) == IF nontrivial THEN "b3" ELSE "fin"

\* 'if(rank == 0)' before destroy()
IsDestroyer(p) == rank[p] = 0

\* where control goes when the call of f returns: the two-way functor goes on
\* to cooperative_any, bulk_execute's f returns to the teardown
AfterUserPc_FulfilFirst(p) ==
  IF twoway
  THEN (IF rank[p] = 0 THEN "connect" ELSE "coop")
  ELSE TeardownEntryPc(p)

AfterUserPc(p) == IF twoway THEN "coop" ELSE TeardownEntryPc(p)

\* execute_active_message_before_main_if in a PE: with the variable set the
\* message is decoded and activate() calls the functor's operator()
Bootstrap(p) ==
  /\ pc[p] = "boot"
  /\ life[p] = "static_init"
  /\ IF HasMessage(p)
     THEN /\ activated' = [activated EXCEPT ![p] = @ + 1]
          /\ life' = [life EXCEPT ![p] = "activating"]
          /\ pc' = [pc EXCEPT ![p] = "start"]
     ELSE /\ life' = [life EXCEPT ![p] = "main"]
          /\ pc' = [pc EXCEPT ![p] = "main"]
          /\ activated' = activated
  /\ UNCHANGED << inputs, launcher, rank, entered, caught_exception,
                  symmetric_value, symmetric_result, value, pending, conn,
                  sent, invoked, call_rank, reads, slotLog, env_message,
                  passed, svars, evars, rvars >>

\* what follows the return of activate(): std::exit(EXIT_SUCCESS)
AfterActivate_FallThrough == "main"

AfterActivate == "exit_success"

\* activate() has returned: std::exit(EXIT_SUCCESS)
Exit(p) ==
  /\ pc[p] = "done"
  /\ life[p] = "activating"
  /\ life' = [life EXCEPT ![p] = AfterActivate]
  /\ UNCHANGED << inputs, launcher, pc, rank, entered, caught_exception,
                  symmetric_value, symmetric_result, value, pending, conn,
                  sent, invoked, call_rank, reads, slotLog, env_message,
                  activated, passed, svars, evars, rvars >>

\* an exception left activate(): nothing catches it, std::terminate ends the
\* process abnormally
Terminate(p) ==
  /\ pc[p] = "aborted"
  /\ life[p] = "activating"
  /\ life' = [life EXCEPT ![p] = "abnormal"]
  /\ UNCHANGED << inputs, launcher, pc, rank, entered, caught_exception,
                  symmetric_value, symmetric_result, value, pending, conn,
                  sent, invoked, call_rank, reads, slotLog, env_message,
                  activated, passed, svars, evars, rvars >>

\* shmem_init(); int rank = shmem_my_pe();
ShmemInit(p) ==
  /\ pc[p] = "start"
  /\ rank' = [rank EXCEPT ![p] = p]
  /\ pc' = [pc EXCEPT ![p] = "ctor"]
  /\ UNCHANGED << inputs, launcher, entered, caught_exception,
                  symmetric_value, symmetric_result, value, pending, conn,
                  sent, invoked, call_rank, reads, slotLog,
                  env_message, activated, life, passed, svars, evars, rvars >>

\* shared_parameter<T>::value.emplace(shared_factory()); two-way: the factory
\* is pair_factory, which makes (result_factory(), shared_factory())
Construct(p) ==
  /\ pc[p] = "ctor"
  /\ IsConstructor(p)
  /\ value' = [value EXCEPT ![p] =
                 [state |-> "constructed",
                  first |-> IF twoway THEN result_factory ELSE 0,
                  second |-> shared_factory]]
  /\ slotLog' = Append(slotLog, [op |-> "emplace", pe |-> p,
                                 was |-> value[p].state])
  /\ pc' = [pc EXCEPT ![p] = PostConstructPc]
  /\ UNCHANGED << inputs, launcher, rank, entered, caught_exception,
                  symmetric_value, symmetric_result, pending, conn, sent,
                  invoked, call_rank, reads,
                  env_message, activated, life, passed, svars, evars, rvars >>

SkipConstruct(p) ==
  /\ pc[p] = "ctor"
  /\ ~IsConstructor(p)
  /\ pc' = [pc EXCEPT ![p] = PostConstructPc]
  /\ UNCHANGED << inputs, launcher, rank, entered, caught_exception,
                  symmetric_value, symmetric_result, value, pending, conn,
                  sent, invoked, call_rank, reads, slotLog,
                  env_message, activated, life, passed, svars, evars, rvars >>

\* shmem_barrier_all() after the construction
Barrier1Enter(p) ==
  /\ pc[p] = "b1"
  /\ entered' = [entered EXCEPT ![p] = @ + 1]
  /\ pc' = [pc EXCEPT ![p] = "b1w"]
  /\ UNCHANGED << inputs, launcher, rank, caught_exception, symmetric_value,
                  symmetric_result, value, pending, conn, sent, invoked,
                  call_rank, reads, slotLog,
                  env_message, activated, life, passed, svars, evars, rvars >>

Barrier1Leave(p) ==
  /\ pc[p] = "b1w"
  /\ BarrierOpen(p)
  /\ pc' = [pc EXCEPT ![p] = "call"]
  /\ passed' = [passed EXCEPT ![p] = @ \cup {"broadcast"}]
  /\ UNCHANGED << inputs, launcher, rank, entered, caught_exception,
                  symmetric_value, symmetric_result, value, pending, conn,
                  sent, invoked, call_rank, reads, slotLog,
                  env_message, activated, life, svars, evars, rvars >>

\* f(rank, *remote_shared_parameter)
Invoke(p) ==
  /\ pc[p] = "call"
  /\ invoked' = [invoked EXCEPT ![p] = @ + 1]
  /\ call_rank' = [call_rank EXCEPT ![p] = rank[p]]
  /\ pc' = [pc EXCEPT ![p] = "u_read"]
  /\ UNCHANGED << inputs, launcher, rank, entered, caught_exception,
                  symmetric_value, symmetric_result, value, pending, conn,
                  sent, reads, slotLog, env_message, activated, life,
                  passed, svars, evars, rvars >>

\* ------------------------- the user function (hello, twoway_hello, ...)

\* it reads the shared parameter through its remote_reference
UserRead(p) ==
  /\ pc[p] = "u_read"
  /\ \E v \in LoadOutcomes(RemoteTargetPE(p), "second") :
       reads' = reads \cup {[pe |-> p, target |-> RemoteTargetPE(p),
                             member |-> "second",
                             seen |-> SlotSeen(RemoteTargetPE(p)), v |-> v]}
  /\ pc' = [pc EXCEPT ![p] =
              IF user_stores[p] # NoStore THEN "u_store" ELSE "u_end"]
  /\ UNCHANGED << inputs, launcher, rank, entered, caught_exception,
                  symmetric_value, symmetric_result, value, pending, conn,
                  sent, invoked, call_rank, slotLog,
                  env_message, activated, life, passed, svars, evars, rvars >>

\* 'result = 7': remote_memory_accessor::store, a shmem_putmem to the target
UserStore(p) ==
  /\ pc[p] = "u_store"
  /\ pending' = pending \cup {[src |-> p, dst |-> RemoteTargetPE(p),
                               v |-> user_stores[p]]}
  /\ pc' = [pc EXCEPT ![p] = "u_end"]
  /\ UNCHANGED << inputs, launcher, rank, entered, caught_exception,
                  symmetric_value, symmetric_result, value, conn, sent,
                  invoked, call_rank, reads, slotLog,
                  env_message, activated, life, passed, svars, evars, rvars >>

\* a put completes at its target
DeliverPut ==
  /\ \E m \in pending :
       /\ value' = [value EXCEPT ![m.dst].first = m.v]
       /\ pending' = pending \ {m}
  /\ UNCHANGED << inputs, launcher, pc, rank, entered, caught_exception,
                  symmetric_value, symmetric_result, conn, sent, invoked,
                  call_rank, reads, slotLog,
                  env_message, activated, life, passed, svars, evars, rvars >>

UserReturn(p) ==
  /\ pc[p] = "u_end"
  /\ p \notin user_raises
  /\ pc' = [pc EXCEPT ![p] = AfterUserPc(p)]
  /\ UNCHANGED << inputs, launcher, rank, entered, caught_exception,
                  symmetric_value, symmetric_result, value, pending, conn,
                  sent, invoked, call_rank, reads, slotLog,
                  env_message, activated, life, passed, svars, evars, rvars >>

\* where an exception of f takes bulk_oneway_functor::operator(), which has
\* no handler: out of operator()
UncaughtPc_Swallowed(p) == TeardownEntryPc(p)

UncaughtPc(p) == "aborted"

\* the user function throws: the two-way functor's catch(...) sets
\* caught_exception; bulk_oneway_functor has no handler and the PE terminates
UserRaise(p) ==
  /\ pc[p] = "u_end"
  /\ p \in user_raises
  /\ caught_exception' = [caught_exception EXCEPT ![p] = twoway]
  /\ pc' = [pc EXCEPT ![p] = IF twoway THEN AfterUserPc(p) ELSE UncaughtPc(p)]
  /\ UNCHANGED << inputs, launcher, rank, entered, symmetric_value,
                  symmetric_result, value, pending, conn, sent, invoked,
                  call_rank, reads, slotLog,
                  env_message, activated, life, passed, svars, evars, rvars >>

\* -------------------------------- twoway_bulk_execute_functor::operator()

\* cooperative_any: 'static int symmetric_value = value', the fill of the
\* pSync array, then shmem_barrier_all()
CoopEnter(p) ==
  /\ pc[p] = "coop"
  /\ symmetric_value' = [symmetric_value EXCEPT ![p] = caught_exception[p]]
  /\ entered' = [entered EXCEPT ![p] = @ + 1]
  /\ pc' = [pc EXCEPT ![p] = "b2w"]
  /\ UNCHANGED << inputs, launcher, rank, caught_exception, symmetric_result,
                  value, pending, conn, sent, invoked, call_rank, reads,
                  slotLog, env_message, activated, life, passed,
                  svars, evars, rvars >>

CoopBarrierLeave(p) ==
  /\ pc[p] = "b2w"
  /\ BarrierOpen(p)
  /\ pc' = [pc EXCEPT ![p] = "red"]
  /\ passed' = [passed EXCEPT ![p] = @ \cup {"reduction"}]
  /\ UNCHANGED << inputs, launcher, rank, entered, caught_exception,
                  symmetric_value, symmetric_result, value, pending, conn,
                  sent, invoked, call_rank, reads, slotLog,
                  env_message, activated, life, svars, evars, rvars >>

\* shmem_int_or_to_all over PEs 0 .. shmem_n_pes()-1: the logical or of every
\* PE's symmetric_value
ReduceResult_LocalOnly(p) == symmetric_value[p]

ReduceResult(p) == \E q \in PEs : symmetric_value[q]

ReduceEnter(p) ==
  /\ pc[p] = "red"
  /\ entered' = [entered EXCEPT ![p] = @ + 1]
  /\ pc' = [pc EXCEPT ![p] = "redw"]
  /\ UNCHANGED << inputs, launcher, rank, caught_exception, symmetric_value,
                  symmetric_result, value, pending, conn, sent, invoked,
                  call_rank, reads, slotLog,
                  env_message, activated, life, passed, svars, evars, rvars >>

\* 'if(rank == 0)' before the promise is fulfilled
IsFulfiller_Every(p) == TRUE

IsFulfiller(p) == rank[p] = 0

\* after cooperative_any returns, rank 0 goes on to write_socket and the
\* promise; every other PE returns from the functor to the teardown
AfterReducePc_TeardownFirst(p) == TeardownEntryPc(p)

AfterReducePc(p) == IF IsFulfiller(p) THEN "connect" ELSE TeardownEntryPc(p)

\* the reduction returns; some_process_caught_exception is symmetric_result
ReduceLeave(p) ==
  /\ pc[p] = "redw"
  /\ CollectiveOpen(p)
  /\ symmetric_result' = [symmetric_result EXCEPT ![p] = ReduceResult(p)]
  /\ pc' = [pc EXCEPT ![p] = AfterReducePc(p)]
  /\ UNCHANGED << inputs, launcher, rank, entered, caught_exception,
                  symmetric_value, value, pending, conn, sent, invoked,
                  call_rank, reads, slotLog,
                  env_message, activated, life, passed, svars, evars, rvars >>

\* write_socket writer(hostname, port): the connection is made if the
\* launching process listens; if not, connect fails with a system error,
\* which nothing in the PE catches
Connect(p) ==
  /\ pc[p] = "connect"
  /\ conn' = [conn EXCEPT ![p] = IF listening THEN "open" ELSE "refused"]
  /\ pc' = [pc EXCEPT ![p] = IF listening THEN "promise" ELSE "aborted"]
  /\ UNCHANGED << inputs, launcher, rank, entered, caught_exception,
                  symmetric_value, symmetric_result, value, pending, sent,
                  invoked, call_rank, reads, slotLog,
                  env_message, activated, life, passed, svars, evars, rvars >>

\* promise.set_value(*remote_result): a load of the pair's first member
PromiseValue_Second(p) == LoadOutcomes(RemoteTargetPE(p), "second")

PromiseValue(p) == LoadOutcomes(RemoteTargetPE(p), "first")

\* set_exception(...) if some PE caught an exception, else set_value(...);
\* writer's destructor then closes the socket
Fulfil(p) ==
  /\ pc[p] = "promise"
  /\ IF symmetric_result[p]
     THEN /\ sent' = [sent EXCEPT ![p] =
                        Append(@, [tag |-> "exception", v |-> 0])]
          /\ reads' = reads
     ELSE \E v \in PromiseValue(p) :
            /\ sent' = [sent EXCEPT ![p] =
                          Append(@, [tag |-> "value", v |-> v])]
            /\ reads' = reads \cup
                 {[pe |-> p, target |-> RemoteTargetPE(p), member |-> "first",
                   seen |-> SlotSeen(RemoteTargetPE(p)), v |-> v]}
  /\ conn' = [conn EXCEPT ![p] = "closed"]
  /\ pc' = [pc EXCEPT ![p] = TeardownEntryPc(p)]
  /\ UNCHANGED << inputs, launcher, rank, entered, caught_exception,
                  symmetric_value, symmetric_result, value, pending, invoked,
                  call_rank, slotLog, env_message, activated, life,
                  passed, svars, evars, rvars >>

\* --------------------------------------------------------------- teardown

\* shmem_barrier_all() of synchronize_and_destroy_shared_parameter_if
Barrier3Enter(p) ==
  /\ pc[p] = "b3"
  /\ entered' = [entered EXCEPT ![p] = @ + 1]
  /\ pc' = [pc EXCEPT ![p] = "b3w"]
  /\ UNCHANGED << inputs, launcher, rank, caught_exception, symmetric_value,
                  symmetric_result, value, pending, conn, sent, invoked,
                  call_rank, reads, slotLog,
                  env_message, activated, life, passed, svars, evars, rvars >>

Barrier3Leave(p) ==
  /\ pc[p] = "b3w"
  /\ BarrierOpen(p)
  /\ pc' = [pc EXCEPT ![p] = IF IsDestroyer(p) THEN "destroy" ELSE "fin"]
  /\ passed' = [passed EXCEPT ![p] = @ \cup {"teardown"}]
  /\ UNCHANGED << inputs, launcher, rank, entered, caught_exception,
                  symmetric_value, symmetric_result, value, pending, conn,
                  sent, invoked, call_rank, reads, slotLog,
                  env_message, activated, life, svars, evars, rvars >>

\* shared_parameter<T>::value.destroy()
Destroy(p) ==
  /\ pc[p] = "destroy"
  /\ value' = [value EXCEPT ![p].state = "destroyed"]
  /\ slotLog' = Append(slotLog, [op |-> "destroy", pe |-> p,
                                 was |-> value[p].state])
  /\ pc' = [pc EXCEPT ![p] = "fin"]
  /\ UNCHANGED << inputs, launcher, rank, entered, caught_exception,
                  symmetric_value, symmetric_result, pending, conn, sent,
                  invoked, call_rank, reads,
                  env_message, activated, life, passed, svars, evars, rvars >>

\* shmem_finalize(): collective, with an implicit barrier that completes the
\* pending communication (OpenSHMEM 1.2, the version that has shmem_init)
FinalizeEnter(p) ==
  /\ pc[p] = "fin"
  /\ entered' = [entered EXCEPT ![p] = @ + 1]
  /\ pc' = [pc EXCEPT ![p] = "finw"]
  /\ UNCHANGED << inputs, launcher, rank, caught_exception, symmetric_value,
                  symmetric_result, value, pending, conn, sent, invoked,
                  call_rank, reads, slotLog,
                  env_message, activated, life, passed, svars, evars, rvars >>

\* shmem_finalize is collective: it returns when every PE has called it
FinalizeOpen_Local(p) == TRUE

FinalizeOpen(p) == BarrierOpen(p)

FinalizeLeave(p) ==
  /\ pc[p] = "finw"
  /\ FinalizeOpen(p)
  /\ pc' = [pc EXCEPT ![p] = "done"]
  /\ UNCHANGED << inputs, launcher, rank, entered, caught_exception,
                  symmetric_value, symmetric_result, value, pending, conn,
                  sent, invoked, call_rank, reads, slotLog,
                  env_message, activated, life, passed, svars, evars, rvars >>

\* ------------------------------------------------------------------- Spec

Next ==
  \/ LauncherBootstrap
  \/ Spawn
  \/ SpawnFails
  \/ Listen
  \/ Accept
  \/ Get
  \/ DeliverPut
  \/ \E p \in PEs : Bootstrap(p)
  \/ \E p \in PEs : Exit(p)
  \/ \E p \in PEs : Terminate(p)
  \/ \E p \in PEs : ShmemInit(p)
  \/ \E p \in PEs : Construct(p)
  \/ \E p \in PEs : SkipConstruct(p)
  \/ \E p \in PEs : Barrier1Enter(p)
  \/ \E p \in PEs : Barrier1Leave(p)
  \/ \E p \in PEs : Invoke(p)
  \/ \E p \in PEs : UserRead(p)
  \/ \E p \in PEs : UserStore(p)
  \/ \E p \in PEs : UserReturn(p)
  \/ \E p \in PEs : UserRaise(p)
  \/ \E p \in PEs : CoopEnter(p)
  \/ \E p \in PEs : CoopBarrierLeave(p)
  \/ \E p \in PEs : ReduceEnter(p)
  \/ \E p \in PEs : ReduceLeave(p)
  \/ \E p \in PEs : Connect(p)
  \/ \E p \in PEs : Fulfil(p)
  \/ \E p \in PEs : Barrier3Enter(p)
  \/ \E p \in PEs : Barrier3Leave(p)
  \/ \E p \in PEs : Destroy(p)
  \/ \E p \in PEs : FinalizeEnter(p)
  \/ \E p \in PEs : FinalizeLeave(p)

Spec == Init /\ [][Next]_vars

\* -------------------------------------------------------- process_context

\* no call starts on a registry whose destructor has begun
Alive == ~destroyed /\ \A u \in Threads : ~in_dtor[u]

\* the pid posix_spawnp hands out next
FreshPid == CHOOSE i \in Pids : proc[i] = "none" /\
                                \A j \in Pids : proc[j] = "none" => i <= j

\* std::lock_guard's constructor returns only once no thread owns the mutex
MutexFree_Always == TRUE

MutexFree == mutex_ = NoThread

\* std::lock_guard<std::mutex> lock(mutex_): the thread owns the mutex
Acquire_NoLock(t) == NoThread

Acquire(t) == t

\* execute: std::lock_guard<std::mutex> lock(mutex_); the call is the
\* caller's own or the one inside twoway_execute
ExecLock(t) ==
  /\ Alive
  /\ tpc[t] \in {"idle", "tw_ready"}
  /\ MutexFree
  /\ \E i \in Pids : proc[i] = "none"
  /\ mutex_' = Acquire(t)
  /\ tpc' = [tpc EXCEPT ![t] = "exec"]
  /\ wsnap' = [wsnap EXCEPT ![t] = processes_]
  /\ UNCHANGED << processes_, proc, waited, widx, in_dtor, destroyed,
                  lastWait, lastFailure, tcall, pipevars,
                  svars, evars, gvars >>

\* processes_.push_back(spawnee_id): keep track of the new process
PushBack_Forgotten(list, pid) == list

PushBack(list, pid) == Append(list, pid)

\* where execute returns to: its caller, or twoway_execute's close(out)
AfterExecute(t) == IF tcall[t] = NoPipe THEN "idle" ELSE "tw_close"

\* the descriptors a process made by posix_spawnp starts with: with no file
\* actions, every descriptor of the caller that does not carry FD_CLOEXEC
Inherited == fds[ThisProcess] \ cloexec

\* posix_spawnp succeeded: processes_.push_back(spawnee_id), then the
\* lock_guard releases the mutex. The new process runs the callable handed
\* to execute: twoway_execute's is invoke_and_write_result{f, out}
ExecSpawn(t) ==
  /\ tpc[t] = "exec"
  /\ proc' = [proc EXCEPT ![FreshPid] = "running"]
  /\ processes_' = PushBack(processes_, FreshPid)
  /\ fds' = [fds EXCEPT ![FreshPid] = Inherited]
  /\ wfd' = [wfd EXCEPT ![FreshPid] = tcall[t]]
  /\ wpc' = [wpc EXCEPT ![FreshPid] = "invoke"]
  /\ mutex_' = NoThread
  /\ tpc' = [tpc EXCEPT ![t] = AfterExecute(t)]
  /\ wsnap' = [wsnap EXCEPT ![t] = << >>]
  /\ UNCHANGED << waited, widx, in_dtor, destroyed, lastWait, lastFailure,
                  tcall, cloexec, pipebuf, future, svars, evars, gvars >>

\* stack unwinding destroys the lock_guard: the mutex is released
UnwindMutex_Held(t) == t

UnwindMutex(t) == NoThread

\* posix_spawnp failed: std::system_error is thrown to the caller before the
\* push_back, and unwinding releases the mutex. Inside twoway_execute the
\* exception leaves twoway_execute too: close(out) is not reached and no
\* future is made
ExecSpawnFails(t) ==
  /\ tpc[t] = "exec"
  /\ mutex_' = UnwindMutex(t)
  /\ tpc' = [tpc EXCEPT ![t] = "idle"]
  /\ tcall' = [tcall EXCEPT ![t] = NoPipe]
  /\ wsnap' = [wsnap EXCEPT ![t] = << >>]
  /\ UNCHANGED << processes_, proc, waited, widx, in_dtor, destroyed,
                  lastWait, pipevars, svars, evars, gvars >>
  /\ lastFailure' = [happened |-> TRUE,
                     to_caller |-> (mutex_ = t),
                     list_kept |-> (processes_' = wsnap[t]),
                     children_kept |-> (proc' = proc),
                     mutex_after |-> mutex_',
                     had_tracked |-> (wsnap[t] # << >>)]

\* a child terminates, at the end of its callable or before (the callable
\* throws, the process crashes), and stays a zombie until it is waited on;
\* its descriptors are closed
ProcExit(i) ==
  /\ proc[i] = "running"
  /\ proc' = [proc EXCEPT ![i] = "exited"]
  /\ fds' = [fds EXCEPT ![i] = {}]
  /\ UNCHANGED << mutex_, processes_, waited, tpc, widx, wsnap, in_dtor,
                  destroyed, lastWait, lastFailure, tcall, cloexec, wfd, wpc,
                  pipebuf, future, svars, evars, gvars >>

\* wait: std::lock_guard<std::mutex> lock(mutex_)
WaitLock(t) ==
  /\ Alive
  /\ tpc[t] = "idle"
  /\ MutexFree
  /\ mutex_' = t
  /\ tpc' = [tpc EXCEPT ![t] = "wait"]
  /\ widx' = [widx EXCEPT ![t] = 1]
  /\ wsnap' = [wsnap EXCEPT ![t] = processes_]
  /\ UNCHANGED << processes_, proc, waited, in_dtor, destroyed, lastWait,
                  lastFailure, tcall, pipevars, svars, evars, gvars >>

\* ~process_context: wait(), once no other call is running
DtorLock(t) ==
  /\ Alive
  /\ \A u \in Threads : tpc[u] = "idle"
  /\ MutexFree
  /\ mutex_' = t
  /\ tpc' = [tpc EXCEPT ![t] = "wait"]
  /\ widx' = [widx EXCEPT ![t] = 1]
  /\ wsnap' = [wsnap EXCEPT ![t] = processes_]
  /\ in_dtor' = [in_dtor EXCEPT ![t] = TRUE]
  /\ UNCHANGED << processes_, proc, waited, destroyed, lastWait,
                  lastFailure, tcall, pipevars, svars, evars, gvars >>

\* 'for(pid_t p : processes_)' has visited every element
WaitLoopDone_SkipLast(t) == widx[t] >= Len(processes_)

WaitLoopDone(t) == widx[t] > Len(processes_)

\* waitpid(p, nullptr, 0): blocks until p has terminated and reaps it; on a
\* pid that is no child any more it fails at once
WaitPid(t) ==
  /\ tpc[t] = "wait"
  /\ ~WaitLoopDone(t)
  /\ LET i == processes_[widx[t]] IN
       /\ proc[i] # "running"
       /\ proc' = [proc EXCEPT ![i] = IF @ = "exited" THEN "reaped" ELSE @]
       /\ waited' = [waited EXCEPT ![i] =
                       IF proc[i] = "exited" THEN @ + 1 ELSE @]
  /\ widx' = [widx EXCEPT ![t] = @ + 1]
  /\ UNCHANGED << mutex_, processes_, tpc, wsnap, in_dtor, destroyed,
                  lastWait, lastFailure, tcall, pipevars,
                  svars, evars, gvars >>

\* processes_.clear(), the lock_guard releases the mutex, wait returns
WaitReturn(t) ==
  /\ tpc[t] = "wait"
  /\ WaitLoopDone(t)
  /\ processes_' = << >>
  /\ mutex_' = NoThread
  /\ tpc' = [tpc EXCEPT ![t] = "idle"]
  /\ destroyed' = in_dtor[t]
  /\ in_dtor' = [in_dtor EXCEPT ![t] = FALSE]
  /\ lastWait' = [returned |-> TRUE,
                  snap |-> wsnap[t],
                  unreaped |-> {wsnap[t][k] : k \in
                                  {j \in 1 .. Len(wsnap[t]) :
                                     proc[wsnap[t][j]] # "reaped"}},
                  tracked |-> processes_']
  /\ UNCHANGED << proc, waited, widx, wsnap, lastFailure,
                  tcall, pipevars, svars, evars, gvars >>

\* ---------------------------------------------------------- twoway_execute

\* the pipe the next pipe() call makes
FreshPipe == CHOOSE k \in Pipes : In(k) \notin fds[ThisProcess] /\
                                  \A j \in Pipes :
                                    In(j) \notin fds[ThisProcess] => k <= j

\* pipe(in_and_out_file_descriptors): both ends are open in this process
TwPipe(t) ==
  /\ Alive
  /\ tpc[t] = "idle"
  /\ \E k \in Pipes : In(k) \notin fds[ThisProcess]
  /\ tcall' = [tcall EXCEPT ![t] = FreshPipe]
  /\ fds' = [fds EXCEPT ![ThisProcess] =
                @ \cup {In(FreshPipe), Out(FreshPipe)}]
  /\ tpc' = [tpc EXCEPT ![t] = "tw_pipe"]
  /\ UNCHANGED << mutex_, processes_, proc, waited, widx, wsnap, in_dtor,
                  destroyed, lastWait, lastFailure, cloexec, wfd, wpc,
                  pipebuf, future, svars, evars, gvars >>

\* fcntl(in, F_SETFD, flags | FD_CLOEXEC): the read end alone is marked
TwCloexec(t) ==
  /\ tpc[t] = "tw_pipe"
  /\ cloexec' = cloexec \cup {In(tcall[t])}
  /\ tpc' = [tpc EXCEPT ![t] = "tw_ready"]
  /\ UNCHANGED << mutex_, processes_, proc, waited, widx, wsnap, in_dtor,
                  destroyed, lastWait, lastFailure, tcall, fds, wfd, wpc,
                  pipebuf, future, svars, evars, gvars >>

\* close(out) in this process
CloseOut(held, k) == held \ {Out(k)}

\* close(out); return interprocess_future<int>(in)
TwClose(t) ==
  /\ tpc[t] = "tw_close"
  /\ fds' = [fds EXCEPT ![ThisProcess] = CloseOut(@, tcall[t])]
  /\ future' = [future EXCEPT ![tcall[t]] = "pending"]
  /\ tcall' = [tcall EXCEPT ![t] = NoPipe]
  /\ tpc' = [tpc EXCEPT ![t] = "idle"]
  /\ UNCHANGED << mutex_, processes_, proc, waited, widx, wsnap, in_dtor,
                  destroyed, lastWait, lastFailure, cloexec, wfd, wpc,
                  pipebuf, svars, evars, gvars >>

\* invoke_and_write_result::operator(): the order of its statements
InvokeAndWriteResult_CloseFirst ==
  << "invoke", "close", "set_value", "return" >>

InvokeAndWriteResult == << "invoke", "set_value", "close", "return" >>

\* the statement after statement st
StepAfter(st) ==
  LET n == CHOOSE j \in 1 .. Len(InvokeAndWriteResult) :
             InvokeAndWriteResult[j] = st
  IN InvokeAndWriteResult[n + 1]

\* auto result = f(); f returns
WorkerInvoke(i) ==
  /\ proc[i] = "running"
  /\ wfd[i] # NoPipe
  /\ wpc[i] = "invoke"
  /\ wpc' = [wpc EXCEPT ![i] = StepAfter("invoke")]
  /\ UNCHANGED << mutex_, processes_, proc, waited, tpc, widx, wsnap, in_dtor,
                  destroyed, lastWait, lastFailure, tcall, fds, cloexec, wfd,
                  pipebuf, future, svars, evars, gvars >>

\* promise.set_value(std::move(result)): the tagged message goes into the
\* pipe if the descriptor is open
WorkerSetValue(i) ==
  /\ proc[i] = "running"
  /\ wfd[i] # NoPipe
  /\ wpc[i] = "set_value"
  /\ pipebuf' = [pipebuf EXCEPT ![wfd[i]] =
                   IF Out(wfd[i]) \in fds[i] THEN "message" ELSE @]
  /\ wpc' = [wpc EXCEPT ![i] = StepAfter("set_value")]
  /\ UNCHANGED << mutex_, processes_, proc, waited, tpc, widx, wsnap, in_dtor,
                  destroyed, lastWait, lastFailure, tcall, fds, cloexec, wfd,
                  future, svars, evars, gvars >>

\* ::close(file_descriptor)
WorkerClose(i) ==
  /\ proc[i] = "running"
  /\ wfd[i] # NoPipe
  /\ wpc[i] = "close"
  /\ fds' = [fds EXCEPT ![i] = @ \ {Out(wfd[i])}]
  /\ wpc' = [wpc EXCEPT ![i] = StepAfter("close")]
  /\ UNCHANGED << mutex_, processes_, proc, waited, tpc, widx, wsnap, in_dtor,
                  destroyed, lastWait, lastFailure, tcall, cloexec, wfd,
                  pipebuf, future, svars, evars, gvars >>

\* the processes that have the write end of pipe k open
Writers(k) == {h \in Holders : Out(k) \in fds[h]}

\* the processes that have the read end of pipe k open
Readers(k) == {h \in Holders : In(k) \in fds[h]}

\* interprocess_future::get on the read end: returns the value once the
\* message is there; the stream ends without one when no process has the
\* write end open any more, and get throws interprocess_exception
FutureGet(k) ==
  /\ future[k] = "pending"
  /\ pipebuf[k] = "message" \/ Writers(k) = {}
  /\ future' = [future EXCEPT ![k] =
                  IF pipebuf[k] = "message" THEN "value"
                  ELSE "interprocess_exception"]
  /\ UNCHANGED << mutex_, processes_, proc, waited, tpc, widx, wsnap, in_dtor,
                  destroyed, lastWait, lastFailure, tcall, fds, cloexec, wfd,
                  wpc, pipebuf, svars, evars, gvars >>

RegistryInit ==
  /\ twoway = FALSE
  /\ nontrivial = FALSE
  /\ shared_factory = 13
  /\ result_factory = 0
  /\ user_raises = {}
  /\ user_stores = [p \in PEs |-> NoStore]
  /\ lpc = "start"
  /\ life = [q \in Processes |-> IF q = LauncherProc THEN "main" ELSE "none"]
  /\ GroupIdle
  /\ RegistryIdle
  /\ SocketUnused
  /\ EnvUnused

RegistryNext ==
  \/ \E t \in Threads : ExecLock(t)
  \/ \E t \in Threads : ExecSpawn(t)
  \/ \E t \in Threads : ExecSpawnFails(t)
  \/ \E i \in Pids : ProcExit(i)
  \/ \E t \in Threads : WaitLock(t)
  \/ \E t \in Threads : DtorLock(t)
  \/ \E t \in Threads : WaitPid(t)
  \/ \E t \in Threads : WaitReturn(t)

SpecRegistry == RegistryInit /\ [][RegistryNext]_vars

\* execute and twoway_execute called from the threads, the children they
\* spawn, and the futures
PipeNext ==
  \/ \E t \in Threads : ExecLock(t)
  \/ \E t \in Threads : ExecSpawn(t)
  \/ \E t \in Threads : ExecSpawnFails(t)
  \/ \E t \in Threads : TwPipe(t)
  \/ \E t \in Threads : TwCloexec(t)
  \/ \E t \in Threads : TwClose(t)
  \/ \E i \in Pids : WorkerInvoke(i)
  \/ \E i \in Pids : WorkerSetValue(i)
  \/ \E i \in Pids : WorkerClose(i)
  \/ \E i \in Pids : ProcExit(i)
  \/ \E k \in Pipes : FutureGet(k)

SpecPipe == RegistryInit /\ [][PipeNext]_vars

\* ------------------------------- twoway_bulk_execute from several threads

\* the port number a socket address carries: sin_port has 16 bits
Htons(n) == n % 65536

\* the call whose read_socket is bound to port number n, if there is one
ListenersOn(n) == {t \in Threads : port_of[t] = n}

\* what PE 0 of a group writes: it names no group
OutcomeTag(g) == IF g \in group_raises THEN "exception" ELSE "value"

\* gethostname, 'int port = 71342', and bulk_execute of the functor
\* {f, hostname, port}: the group runs, and its PE 0 comes to write_socket
TwBulkExecute(t) ==
  /\ tbpc[t] = "idle"
  /\ tbpc' = [tbpc EXCEPT ![t] = "spawned"]
  /\ functor_port' = [functor_port EXCEPT ![t] = port]
  /\ pe0' = [pe0 EXCEPT ![t] = "running"]
  /\ UNCHANGED << group_raises, port_of, backlog, peer, got, evars, gvars,
                  rvars >>

\* gethostname or posix_spawnp fails: system_error out of the call
TwBulkExecuteFails(t) ==
  /\ tbpc[t] = "idle"
  /\ tbpc' = [tbpc EXCEPT ![t] = "spawn_error"]
  /\ UNCHANGED << group_raises, functor_port, port_of, backlog, pe0, peer,
                  got, evars, gvars, rvars >>

\* read_socket(port): bind and listen
ReadSocketListen(t) ==
  /\ tbpc[t] = "spawned"
  /\ ListenersOn(Htons(port)) = {}
  /\ port_of' = [port_of EXCEPT ![t] = Htons(port)]
  /\ tbpc' = [tbpc EXCEPT ![t] = "listening"]
  /\ UNCHANGED << group_raises, functor_port, backlog, pe0, peer, got, evars,
                  gvars, rvars >>

\* read_socket(port) while another socket is bound to the port: bind fails
ReadSocketBindFails(t) ==
  /\ tbpc[t] = "spawned"
  /\ ListenersOn(Htons(port)) # {}
  /\ tbpc' = [tbpc EXCEPT ![t] = "bind_error"]
  /\ UNCHANGED << group_raises, functor_port, port_of, backlog, pe0, peer,
                  got, evars, gvars, rvars >>

\* write_socket writer(hostname, port) in PE 0 of group g: the connection
\* goes to whatever socket listens on the port, or is refused
WriteSocketConnect(g) ==
  /\ pe0[g] = "running"
  /\ IF ListenersOn(Htons(functor_port[g])) = {}
     THEN /\ pe0' = [pe0 EXCEPT ![g] = "refused"]
          /\ backlog' = backlog
     ELSE /\ pe0' = [pe0 EXCEPT ![g] = "connected"]
          /\ \E t \in ListenersOn(Htons(functor_port[g])) :
               backlog' = [backlog EXCEPT ![t] = Append(@, g)]
  /\ UNCHANGED << group_raises, tbpc, functor_port, port_of, peer, got,
                  evars, gvars, rvars >>

\* promise.set_value / set_exception and the close of the socket
PromiseWrite(g) ==
  /\ pe0[g] = "connected"
  /\ pe0' = [pe0 EXCEPT ![g] = "written"]
  /\ UNCHANGED << group_raises, tbpc, functor_port, port_of, backlog, peer,
                  got, evars, gvars, rvars >>

\* read_socket accepts the first queued connection and release() hands its
\* descriptor to the future; the listening socket is closed
ReadSocketAccept(t) ==
  /\ tbpc[t] = "listening"
  /\ backlog[t] # << >>
  /\ peer' = [peer EXCEPT ![t] = Head(backlog[t])]
  /\ backlog' = [backlog EXCEPT ![t] = << >>]
  /\ port_of' = [port_of EXCEPT ![t] = NoPort]
  /\ pe0' = [g \in Threads |->
               IF \E k \in 2 .. Len(backlog[t]) : backlog[t][k] = g
               THEN "reset" ELSE pe0[g]]
  /\ tbpc' = [tbpc EXCEPT ![t] = "returned"]
  /\ UNCHANGED << group_raises, functor_port, got, evars, gvars, rvars >>

\* get() on the future a call returned: it reads the one tagged message of
\* the connection
SocketFutureGet(t) ==
  /\ tbpc[t] = "returned"
  /\ pe0[peer[t]] = "written"
  /\ got' = [got EXCEPT ![t] = [tag |-> OutcomeTag(peer[t]),
                                from |-> peer[t]]]
  /\ tbpc' = [tbpc EXCEPT ![t] = "got"]
  /\ UNCHANGED << group_raises, functor_port, port_of, backlog, pe0, peer,
                  evars, gvars, rvars >>

PortInit ==
  /\ twoway = TRUE
  /\ nontrivial = FALSE
  /\ shared_factory = 13
  /\ result_factory = 0
  /\ user_raises = {}
  /\ user_stores = [p \in PEs |-> NoStore]
  /\ lpc = "start"
  /\ life = [q \in Processes |-> IF q = LauncherProc THEN "main" ELSE "none"]
  /\ GroupIdle
  /\ RegistryIdle
  /\ group_raises \in SUBSET Threads
  /\ SocketIdle
  /\ EnvUnused

PortNext ==
  \/ \E t \in Threads : TwBulkExecute(t)
  \/ \E t \in Threads : TwBulkExecuteFails(t)
  \/ \E t \in Threads : ReadSocketListen(t)
  \/ \E t \in Threads : ReadSocketBindFails(t)
  \/ \E g \in Threads : WriteSocketConnect(g)
  \/ \E g \in Threads : PromiseWrite(g)
  \/ \E t \in Threads : ReadSocketAccept(t)
  \/ \E t \in Threads : SocketFutureGet(t)

SpecPort == PortInit /\ [][PortNext]_vars

\* --------------------------------- the environment of a spawned process

\* s[k] as an iterator reads it: the terminator at the end of the string
CharAt(s, k) == IF k <= Len(s) THEN s[k] ELSE Nul

\* std::mismatch(a.begin(), a.end(), b.begin()): the first position at which
\* a and b differ, Len(a) + 1 if a is a prefix of b
Mismatch(a, b) ==
  LET D == {k \in 1 .. Len(a) : a[k] # CharAt(b, k)}
  IN  IF D = {} THEN Len(a) + 1 ELSE CHOOSE k \in D : \A j \in D : k <= j

\* the predicate of set_variable's find_if: var is a prefix of
\* current_variable and the next character is an equal sign
\* ('result.second != variable.end()' compares iterators of two different
\* strings, which are never equal)
IsVariable_PrefixOnly(var, current_variable) ==
  Mismatch(var, current_variable) = Len(var) + 1

IsVariable(var, current_variable) ==
  LET result == Mismatch(var, current_variable)
  IN  IF result = Len(var) + 1
      THEN CharAt(current_variable, result) = "="
      ELSE FALSE

\* std::find_if: the first position that satisfies the predicate, or end()
FindVariable(environment, var) ==
  LET F == {i \in 1 .. Len(environment) : IsVariable(var, environment[i])}
  IN  IF F = {} THEN Len(environment) + 1
      ELSE CHOOSE i \in F : \A j \in F : i <= j

\* set_variable: the entry found is assigned, else one is emplaced at the back
set_variable(environment, var, val) ==
  LET existing_variable == FindVariable(environment, var)
  IN  IF existing_variable # Len(environment) + 1
      THEN [environment EXCEPT ![existing_variable] = var \o << "=" >> \o val]
      ELSE Append(environment, var \o << "=" >> \o val)

\* variable.c_str() as the spawned process reads it: up to the terminator
c_str(str) ==
  LET Z == {k \in 1 .. Len(str) + 1 : CharAt(str, k) = Nul}
  IN  SubSeq(str, 1, (CHOOSE k \in Z : \A j \in Z : k <= j) - 1)

\* environment_view: the c_str() of every string, in order (and a final 0)
environment_view(environment) ==
  [i \in 1 .. Len(environment) |-> c_str(environment[i])]

\* the name a string of the environment defines, if it has an equal sign
HasName(e) == \E k \in 1 .. Len(e) : e[k] = "="

EnvName(e) ==
  LET K == {k \in 1 .. Len(e) : e[k] = "="}
  IN  SubSeq(e, 1, (CHOOSE k \in K : \A j \in K : k <= j) - 1)

\* the environments a process can start with: no name is defined twice
Environments ==
  {env \in UNION {[1 .. n -> EnvStrings] : n \in 0 .. MaxEnv} :
     \A i, j \in 1 .. Len(env) :
       (i # j) =>
         /\ env[i] # env[j]
         /\ (HasName(env[i]) /\ HasName(env[j]))
              => (EnvName(env[i]) # EnvName(env[j]))}

\* process_context::execute up to posix_spawnp: the copy of the environment
\* with the variable set, and the launcher's arguments followed by the name
\* of this program
ExecuteArguments ==
  /\ args = << >>
  /\ spawnee_environment' =
       environment_view(set_variable(environ, variable, message))
  /\ args' = Append(launcher_program_argv, filename)
  /\ UNCHANGED << environ, message, launcher_program_argv, svars, gvars,
                  rvars >>

EnvInit ==
  /\ twoway = FALSE
  /\ nontrivial = FALSE
  /\ shared_factory = 13
  /\ result_factory = 0
  /\ user_raises = {}
  /\ user_stores = [p \in PEs |-> NoStore]
  /\ lpc = "start"
  /\ life = [q \in Processes |-> IF q = LauncherProc THEN "main" ELSE "none"]
  /\ GroupIdle
  /\ RegistryIdle
  /\ SocketUnused
  /\ environ \in Environments
  /\ message \in Messages
  /\ launcher_program_argv \in LauncherArgvs
  /\ EnvIdle

EnvNext == ExecuteArguments

SpecEnv == EnvInit /\ [][EnvNext]_vars

\* ----------------------------------------------------------------- claims

\* PE p is before or inside its Execute step (the call of the user function)
StillExecuting(p) ==
  pc[p] \in {"unspawned", "boot", "start", "ctor", "b1", "b1w", "call",
             "u_read", "u_store", "u_end"}

\* PE p's call of the user function has returned or thrown
FinishedUser(p) == ~StillExecuting(p)

\* the PEs whose user function stores through the result reference
Storers == {p \in PEs : user_stores[p] # NoStore}

Emplaces == {k \in 1 .. Len(slotLog) : slotLog[k].op = "emplace"}

Destroys == {k \in 1 .. Len(slotLog) : slotLog[k].op = "destroy"}

\* C1: in a two-way invocation where the user function throws on at least one
\* PE (any rank, one or several), every message written to the result channel
\* is the failure message, and Future.get() yields nothing but
\* interprocess_exception: never a value, never another kind of error.
C1_FailureIsAggregated ==
  (twoway /\ user_raises # {}) =>
    /\ \A p \in PEs : \A k \in 1 .. Len(sent[p]) : sent[p][k].tag = "exception"
    /\ outcome.kind \in {"none", "interprocess_exception"}

\* the user function threw on a PE other than PE 0 only, and get() has failed
C1_Witness ==
  /\ twoway
  /\ user_raises # {}
  /\ 0 \notin user_raises
  /\ Len(sent[0]) = 1
  /\ outcome.kind = "interprocess_exception"

\* C2: the promise is fulfilled (set_value or set_exception has written to the
\* channel) only when every PE of the group has finished executing the user
\* function: no state has a message written while some PE is still before or
\* inside its Execute step.
C2_NoEarlyFulfilment ==
  (\E p \in PEs : sent[p] # << >>) => \A q \in PEs : FinishedUser(q)

\* PE 0 has fulfilled the promise in a group every PE of which ran the function
C2_Witness ==
  /\ sent[0] # << >>
  /\ \A q \in PEs : invoked[q] = 1
  /\ \E q \in PEs : q # 0 /\ user_stores[q] # NoStore

\* C3: in a two-way invocation in which no PE throws, what Future.get() yields
\* is a value, the content of the result slot on PE 0: result_factory()'s
\* value if no PE stored through the result reference, and v if exactly one PE
\* stored v.
C3_ValueIsResultSlot ==
  (twoway /\ user_raises = {} /\ Cardinality(Storers) <= 1
     /\ outcome.kind # "none") =>
    /\ outcome.kind = "value"
    /\ outcome.v = value[0].first
    /\ Storers = {} => outcome.v = result_factory
    /\ \A p \in Storers : outcome.v = user_stores[p]

\* one PE, not PE 0, stored 7 over a different initial result; get() gave 7
C3_Witness ==
  /\ twoway
  /\ user_raises = {}
  /\ Cardinality(Storers) = 1
  /\ 0 \notin Storers
  /\ outcome.kind = "value"
  /\ outcome.v # result_factory

C5_ConstructedBeforeUse ==
  /\ \A p \in PEs : (pc[p] = "call" \/ invoked[p] > 0) => Emplaces # {}
  /\ \A r \in reads : r.seen # "raw"

\* a PE other than PE 0 has read the slot while PE 0 has not yet called f
C5_Witness ==
  /\ invoked[0] = 0
  /\ \E r \in reads : r.pe # 0 /\ r.seen = "constructed"

\* C6: for a shared-parameter type with non-trivial teardown, PE 0 destroys
\* the slot only after every PE has finished running the user function, and no
\* read sees a slot whose destruction has begun.
C6_DestroyedAfterUse ==
  /\ (\E p \in PEs : pc[p] = "destroy" \/ value[p].state = "destroyed")
       => \A q \in PEs : FinishedUser(q)
  /\ \A r \in reads : r.seen # "destroyed"

\* the slot of a one-way group was destroyed after both PEs had read it
C6_Witness ==
  /\ ~twoway
  /\ nontrivial
  /\ value[0].state = "destroyed"
  /\ \A p \in PEs : \E r \in reads : r.pe = p

\* C7: the slot is constructed at most once and destroyed at most once, both
\* by PE 0 only; a destroy always follows the emplace; a trivially
\* destructible type is never destroyed; once a PE runs the user function the
\* slot has been constructed exactly once, and when the invocation has run to
\* its end a type with non-trivial teardown has been destroyed exactly once.
C7_SlotLifecycle ==
  /\ \A k \in 1 .. Len(slotLog) : slotLog[k].pe = 0
  /\ Cardinality(Emplaces) <= 1
  /\ Cardinality(Destroys) <= 1
  /\ \A k \in Emplaces : slotLog[k].was = "raw"
  /\ \A k \in Destroys : slotLog[k].was = "constructed" /\ nontrivial
  /\ \A p \in PEs : p # 0 => value[p].state = "raw"
  /\ (\E p \in PEs : invoked[p] > 0) => Cardinality(Emplaces) = 1
  /\ (\A p \in PEs : pc[p] = "done") =>
       Cardinality(Destroys) = (IF nontrivial THEN 1 ELSE 0)

\* a group has run to its end with one emplace and one destroy, both on PE 0
C7_Witness ==
  /\ \A p \in PEs : pc[p] = "done"
  /\ slotLog = << [op |-> "emplace", pe |-> 0, was |-> "raw"],
                  [op |-> "destroy", pe |-> 0, was |-> "constructed"] >>

\* C8: the launching process listens on the result socket before the group is
\* spawned, so a listener exists whenever PE 0 attempts its connection.
C8_ListensBeforeSpawn ==
  /\ ~spawnedUnheard
  /\ \A p \in PEs : pc[p] = "connect" => listening
  /\ \A p \in PEs : conn[p] # "refused"

\* C9: at most one tagged message is ever written to the result channel: only
\* PE 0 connects and writes, it writes exactly one message (set_value or
\* set_exception, once), and a PE of another rank never connects or writes.
C9_OneMessageFromPE0 ==
  /\ \A p \in PEs : p # 0 => conn[p] = "none" /\ sent[p] = << >>
  /\ Len(sent[0]) <= 1
  /\ \A k \in 1 .. Len(sent[0]) : sent[0][k].tag \in {"value", "exception"}
  /\ pc[0] \in {"b3", "b3w", "destroy", "fin", "finw", "done"} =>
       Len(sent[0]) = (IF twoway THEN 1 ELSE 0)

\* every PE of a two-way group has left the runtime; PE 0 wrote one message
C9_Witness ==
  /\ twoway
  /\ \A p \in PEs : pc[p] = "done"
  /\ Len(sent[0]) = 1
  /\ accepted = 0

\* C10: when wait returns, every process that was tracked when the wait took
\* the registry has been waited on and the registry tracks no process; after
\* the registry's teardown no spawned process is left unreaped.
C10_WaitReapsAll ==
  /\ lastWait.returned =>
       lastWait.unreaped = {} /\ lastWait.tracked = << >>
  /\ destroyed =>
       processes_ = << >> /\ \A i \in Pids : proc[i] \in {"none", "reaped"}

\* a wait has returned that found two processes tracked
C10_Witness ==
  /\ lastWait.returned
  /\ Len(lastWait.snap) >= 2
  /\ \A k \in 1 .. Len(lastWait.snap) : waited[lastWait.snap[k]] = 1

\* the pids in the tracked list
TrackedPids == {processes_[k] : k \in 1 .. Len(processes_)}

\* C11: over any interleaving of execute, wait and the registry's teardown,
\* each successfully spawned process is waited on exactly once. It is never
\* waited on twice: it is reaped at most once, it is in the list at most once,
\* and a reaped pid is in the list only behind the position of the wait that
\* reaped it, which clears the list before it releases the mutex. It is never
\* dropped without having been waited on: a process that was not reaped yet
\* is in the list.
C11_WaitedExactlyOnce ==
  /\ \A i \in Pids : waited[i] <= 1
  /\ \A i \in Pids : proc[i] \in {"running", "exited"} => i \in TrackedPids
  /\ \A i \in Pids : proc[i] = "reaped" => waited[i] = 1
  /\ \A j, k \in 1 .. Len(processes_) :
        processes_[j] = processes_[k] => j = k
  /\ \A k \in 1 .. Len(processes_) :
        proc[processes_[k]] = "reaped" =>
          \E t \in Threads : tpc[t] = "wait" /\ mutex_ = t /\ k < widx[t]

\* two processes were spawned and reaped by different waits, the second of
\* them the destructor's
C11_Witness ==
  /\ destroyed
  /\ \A i \in Pids : waited[i] = 1
  /\ Len(lastWait.snap) = 1

\* C12: when process creation fails inside execute, the error is raised to
\* the caller of that same call, no process is added to the tracked list or to
\* the children, the processes tracked when the call took the mutex are still
\* tracked in the same order, and the mutex is free again; whenever no call is
\* running the mutex is free, so later execute and wait calls proceed.
C12_SpawnFailureLeavesRegistryIntact ==
  /\ lastFailure.happened =>
        /\ lastFailure.to_caller
        /\ lastFailure.list_kept
        /\ lastFailure.children_kept
        /\ lastFailure.mutex_after = NoThread
  /\ (\A t \in Threads : tpc[t] = "idle") => mutex_ = NoThread

\* an execute failed while a process was tracked and a pid was still unused;
\* later executes have used every pid and later waits have reaped them all
C12_Witness ==
  /\ lastFailure.happened
  /\ lastFailure.had_tracked
  /\ \A i \in Pids : proc[i] = "reaped"

\* process q exists
Started(q) == life[q] # "none"

\* C13 as stated: a process started with EXECUTE_ACTIVE_MESSAGE_BEFORE_MAIN
\* set activates the message exactly once, never reaches main, and when it
\* terminates it terminates with success status; a process started without
\* the variable performs no activation and goes on to main.
C13_ActivatesOnceThenExitsWithSuccess ==
  \A q \in Processes :
    Started(q) =>
      IF env_message[q]
      THEN /\ life[q] \in {"static_init", "activating", "exit_success"}
           /\ activated[q] = (IF life[q] = "static_init" THEN 0 ELSE 1)
      ELSE /\ life[q] \in {"static_init", "main"}
           /\ activated[q] = 0

\* C13, amended: a process started with the variable set activates the
\* message exactly once and never reaches main; it terminates with success
\* status when activate() has returned, and abnormally when an exception has
\* left activate(). A process started without the variable performs no
\* activation and goes on to main.
C13_ActivatesOnceNeverMain ==
  \A q \in Processes :
    Started(q) =>
      IF env_message[q]
      THEN /\ life[q] \in {"static_init", "activating", "exit_success",
                           "abnormal"}
           /\ activated[q] = (IF life[q] = "static_init" THEN 0 ELSE 1)
           /\ life[q] = "exit_success" => pc[q] = "done"
           /\ life[q] = "abnormal" => pc[q] = "aborted"
      ELSE /\ life[q] \in {"static_init", "main"}
           /\ activated[q] = 0

\* one PE has left through std::exit(EXIT_SUCCESS), another was ended by an
\* exception, and the launching process, started without the variable, is in
\* main() and has activated nothing
C13_Witness ==
  /\ \E p \in PEs : life[p] = "exit_success" /\ activated[p] = 1
  /\ life[LauncherProc] = "main"
  /\ activated[LauncherProc] = 0
  /\ ~env_message[LauncherProc]

\* the worker of pipe k has terminated and has written no message
WorkerGoneUnfulfilled(k) ==
  /\ pipebuf[k] = "empty"
  /\ \E i \in Pids : wfd[i] = k /\ proc[i] \in {"exited", "reaped"}

C15_OneWriterOneReader ==
  \A k \in Pipes :
    /\ Readers(k) \subseteq {ThisProcess}
    /\ Writers(k) \subseteq {ThisProcess} \cup {i \in Pids : wfd[i] = k}

\* PE p has finished the teardown of synchronize_and_destroy_shared_parameter_if
\* and is in shmem_finalize or past it
Leaving(p) == pc[p] \in {"fin", "finw", "done"}

\* C16 as stated: whatever the operation and the shared type, every PE has
\* passed a teardown barrier when it goes on to leave the runtime, and PE 0
\* has not left the runtime while another PE is still running the user
\* function.
C16_TeardownBarrierAlways ==
  /\ \A p \in PEs : Leaving(p) => "teardown" \in passed[p]
  /\ pc[0] \in {"done", "aborted"} => \A q \in PEs : FinishedUser(q)

\* C16, amended: for a shared type that is not trivially destructible every
\* PE has passed the teardown barrier when it enters shmem_finalize; for a
\* trivially destructible type no PE passes a teardown barrier. In both
\* cases PE 0 does not return from the collective shmem_finalize while
\* another PE is still running the user function, and PE 0's slot is read
\* after PE 0 has left only when an exception has ended PE 0.
C16_TeardownBarrierIfNontrivial ==
  /\ \A p \in PEs :
        IF nontrivial THEN Leaving(p) => "teardown" \in passed[p]
        ELSE "teardown" \notin passed[p]
  /\ pc[0] = "done" => \A q \in PEs : FinishedUser(q)
  /\ \A r \in reads : r.seen = "gone" => pc[0] = "aborted"

\* a trivially destructible type: PE 0 is inside shmem_finalize, having passed
\* no teardown barrier, while another PE is inside the user function
C16_Witness ==
  /\ ~nontrivial
  /\ pc[0] = "finw"
  /\ "teardown" \notin passed[0]
  /\ \E q \in PEs : pc[q] \in {"u_read", "u_store", "u_end"}

\* PE p waits inside a collective operation
InCollective(p) == pc[p] \in {"b1w", "b2w", "redw", "b3w", "finw"}

\* C17: in a two-way invocation no PE waits forever at a barrier or at the
\* reduction: while a PE waits inside a collective operation, every PE that
\* has not entered that operation yet is still running and can still enter
\* it.
C17_NoCollectiveWaitsForever ==
  twoway =>
    \A p, q \in PEs :
      (InCollective(p) /\ entered[q] < entered[p]) => pc[q] # "aborted"

\* C18: a two-way invocation whose group was spawned stays able to deliver
\* its one outcome: PE 0 does not end without having written the tagged
\* message that the launching process waits for.
C18_OutcomeDeliverable ==
  (twoway /\ lpc \in {"listen", "accept", "get", "done"}) =>
    ~(pc[0] = "aborted" /\ sent[0] = << >>)

\* C19: the worker of twoway_execute invokes the callable, writes the whole
\* result through the promise and then closes the write end, in that order:
\* its write end is open until set_value has run, a running worker whose
\* write end is closed has written its message, and a future that produced a
\* value read a written message.
C19_WriteThenClose ==
  /\ \A i \in Pids :
        (proc[i] = "running" /\ wfd[i] # NoPipe) =>
          /\ (wpc[i] \in {"invoke", "set_value"} => Out(wfd[i]) \in fds[i])
          /\ (Out(wfd[i]) \notin fds[i] => pipebuf[wfd[i]] = "message")
          /\ (wpc[i] = "return" =>
                Out(wfd[i]) \notin fds[i] /\ pipebuf[wfd[i]] = "message")
  /\ \A k \in Pipes : future[k] = "value" => pipebuf[k] = "message"

\* a worker has gone through invoke, set_value and close, and get() on the
\* future of its pipe has returned the value
C19_Witness ==
  \E i \in Pids :
    /\ proc[i] = "running"
    /\ wfd[i] # NoPipe
    /\ wpc[i] = "return"
    /\ Writers(wfd[i]) = {}
    /\ future[wfd[i]] = "value"

\* C20: under any interleaving of execute and wait the tracked list is read
\* and changed only by the thread that holds the mutex: a thread inside
\* execute or wait, where the list is read, owns the mutex, and every step
\* that changes the list is taken by the owner. Every spawned process
\* is in the list or has been waited on, an append keeps the elements that
\* were there, and the clearing at the end of wait removes reaped processes
\* only.
C20_ListGuardedByMutex ==
  /\ [](\A t \in Threads : tpc[t] \in {"exec", "wait"} => mutex_ = t)
  /\ [](\A i \in Pids :
          proc[i] # "none" => (i \in TrackedPids \/ waited[i] = 1))
  /\ [][
        /\ (processes_' # processes_) =>
             (/\ mutex_ \in Threads
              /\ tpc[mutex_] \in {"exec", "wait"}
              /\ \A u \in Threads \ {mutex_} : tpc'[u] = tpc[u])
        /\ (Len(processes_') > Len(processes_)) =>
             (SubSeq(processes_', 1, Len(processes_)) = processes_)
        /\ (Len(processes_') < Len(processes_)) =>
             (\A k \in 1 .. Len(processes_) : proc[processes_[k]] = "reaped")
      ]_vars

\* two threads have appended one process each, one of the processes was
\* reaped and cleared by a wait and the other is tracked
C20_Witness ==
  /\ \E i \in Pids : proc[i] = "reaped" /\ i \notin TrackedPids
  /\ \E i \in Pids : proc[i] = "running" /\ i \in TrackedPids
  /\ mutex_ = NoThread

\* the threads inside wait
Waiting == {t \in Threads : tpc[t] = "wait"}

\* C21: wait owns the mutex for the whole time it blocks on process exits:
\* while a thread is inside wait it owns the mutex and no other thread is
\* inside execute or wait; no thread starts an execute or a second wait in a
\* step taken while a wait is in progress; and the step that ends a wait
\* leaves the list empty with every process that was tracked reaped.
C21_WaitBlocksOtherCalls ==
  /\ [](\A t \in Waiting :
          /\ mutex_ = t
          /\ \A u \in Threads \ {t} : tpc[u] \notin {"exec", "wait"})
  /\ [][
        /\ (Waiting # {}) =>
             (\A u \in Threads :
                (tpc'[u] \in {"exec", "wait"}) => (tpc'[u] = tpc[u]))
        /\ (\A t \in Waiting :
               (tpc'[t] # "wait") =>
                 (/\ processes_' = << >>
                  /\ \A k \in 1 .. Len(processes_) :
                        proc'[processes_[k]] = "reaped"))
      ]_vars

\* a wait is blocked on a process that is still running, while another
\* thread is idle and a pid is free for an execute that cannot start
C21_Witness ==
  \E t \in Waiting :
    /\ ~WaitLoopDone(t)
    /\ proc[processes_[widx[t]]] = "running"
    /\ \E u \in Threads \ {t} : tpc[u] = "idle"
    /\ \E i \in Pids : proc[i] = "none"

\* PE p is in the teardown of bulk_oneway_functor::operator() or past it
InTeardown(p) == pc[p] \in {"b3", "b3w", "destroy", "fin", "finw", "done"}

\* C22: in a one-way call a failure of the user function is never reported to
\* the caller: bulk_execute has returned exactly when the group was spawned
\* and has thrown only when the spawn failed, whatever the user function
\* does; nothing listens, connects or is delivered; and a PE whose user
\* function throws does not catch the exception, never reaches the teardown
\* and never ends with success status.
C22_OneWayFailureUnreported ==
  ~twoway =>
    /\ lpc \in {"boot", "start", "returned", "spawn_error"}
    /\ (lpc = "returned") = (\A p \in PEs : pc[p] # "unspawned")
    /\ (lpc = "spawn_error") => (\A p \in PEs : pc[p] = "unspawned")
    /\ outcome.kind = "none" /\ ~listening /\ accepted = NoPE
    /\ \A p \in PEs : conn[p] = "none" /\ sent[p] = << >>
    /\ \A p \in user_raises :
          /\ ~caught_exception[p]
          /\ ~InTeardown(p)
          /\ life[p] # "exit_success"
          /\ (life[p] = "abnormal") => (invoked[p] = 1)

\* bulk_execute has returned, the user function has thrown on one PE, which
\* was terminated abnormally, and returned on another, which has gone on
C22_Witness ==
  /\ ~twoway
  /\ lpc = "returned"
  /\ \E p \in user_raises : life[p] = "abnormal"
  /\ \E p \in PEs \ user_raises : invoked[p] = 1 /\ InTeardown(p)

\* PE q has entered the OR-reduction of cooperative_any
EnteredReduction(q) ==
  pc[q] \in {"redw", "connect", "promise", "aborted"} \/ InTeardown(q)

\* the loads made for promise.set_value(*remote_result)
ResultReads == {r \in reads : r.member = "first"}

\* C23: in a two-way invocation, PE 0's read of the result slot for set_value
\* is made after the OR-reduction (every PE has entered it and PE 0 has its
\* result), while the slot is constructed and PE 0 is in the runtime and not
\* yet in its teardown; and PE 0 is in the teardown barrier, the destroy or
\* shmem_finalize, or has finished, only when it has written its one message
\* and closed the connection.
C23_FulfilmentBeforeTeardown ==
  /\ [](twoway =>
          /\ \A r \in ResultReads :
                /\ rank[r.pe] = 0
                /\ r.target = 0
                /\ r.seen = "constructed"
          /\ \A p \in PEs :
                (rank[p] = 0 /\ (InTeardown(p) \/ value[p].state = "destroyed"))
                  => (Len(sent[p]) = 1 /\ conn[p] = "closed"))
  /\ [][
        \A p \in PEs :
          (twoway /\ sent'[p] # sent[p]) =>
            (/\ rank[p] = 0
             /\ \A q \in PEs : EnteredReduction(q)
             /\ symmetric_result[p] = (user_raises # {})
             /\ ~InTeardown(p)
             /\ InRuntime(p)
             /\ value[p].state = "constructed"
             /\ reads' \ reads \subseteq ResultReads'
             /\ (reads' = reads) = symmetric_result[p]
             /\ pc'[p] = TeardownEntryPc(p))
      ]_vars

\* PE 0 read the result slot for set_value and has since destroyed the slot
\* and left the runtime
C23_Witness ==
  /\ twoway
  /\ nontrivial
  /\ ResultReads # {}
  /\ value[0].state = "destroyed"
  /\ pc[0] = "done"

\* C24: when two two-way invocations are outstanding at the same time, each
\* future is bound to the connection of PE 0 of its own group and get()
\* yields that group's outcome message, never the other group's.
C24_OwnOutcomeOnly ==
  \A t \in Threads :
    /\ peer[t] \in {NoThread, t}
    /\ (got[t].tag # "none") =>
         (got[t].from = t /\ got[t].tag = OutcomeTag(t))

\* C25: the port the launching process listens on and the port passed to the
\* PEs are the same value, the constant of twoway_bulk_execute, and it lies
\* within 0 .. 65535: the number a socket is bound to or connected to is the
\* constant itself, not a truncation of it.
C25_PortInRange ==
  \A t \in Threads :
    /\ (functor_port[t] # NoPort) =>
         /\ functor_port[t] = port
         /\ functor_port[t] \in 0 .. 65535
         /\ Htons(functor_port[t]) = functor_port[t]
    /\ (port_of[t] # NoPort) =>
         /\ port_of[t] = port
         /\ port_of[t] \in 0 .. 65535

\* string e defines the variable called name: it is name, '=', and a value
Defines(e, name) ==
  /\ Len(e) > Len(name)
  /\ SubSeq(e, 1, Len(name)) = name
  /\ e[Len(name) + 1] = "="

\* the positions of an environment that define the bootstrap variable
Defining(env) == {i \in 1 .. Len(env) : Defines(env[i], variable)}

====
